---- MODULE Spec2Model ----
(***************************************************************************)
(* Model of the Terraform plan validator (src/scripts/validate_terraform.py)*)
(* and of the Elastic-IP Lambda (src/lambda_function.py).                   *)
(*                                                                          *)
(* Python strings are sequences of one-character strings, so that split,    *)
(* membership, islower and the regular expressions are computed character   *)
(* by character, as the code computes them.                                 *)
(***************************************************************************)
EXTENDS Integers, Sequences, FiniteSets, TLC

VARIABLES
    plan_file,          \* tfplan.json on disk: "absent", "malformed" (not JSON), "present"
    plan,               \* the parsed JSON document of tfplan.json
    terraform_dir,      \* the terraform directory: [exists, files]
    glob_order,         \* the order in which the last scan enumerated *.tf
    is_valid,           \* local is_valid of the last extract_providers_from_plan call
    provider_list,      \* local provider_list after Method 2 of the last call
    returned_at,        \* the return statement the last call left through
    ret,                \* the list the last call returned
    prev_ret,           \* the list the call before it returned
    calls,              \* number of extract_providers_from_plan calls so far
    norm,               \* normalize_provider_name applied once and twice to norm.x
    pc,                 \* main(): the statement it is at
    request_id_counter, \* the global _request_id_counter
    requests,           \* the request (id, method, params) of every send_mcp_request call
    initialize_result,  \* initialize_mcp(): local result, as send_mcp_request returned it
    version,            \* main(): local version of the provider being validated
    report_lines,       \* main(): the provider sections appended to report_lines
    report_file,        \* mcp_validation_report.txt: "absent" or "written"
    exit_code,          \* the exit status of the process, once pc is "exited" or "done"
    last_result,        \* what the latest send_mcp_request call returned
    scan,               \* extract_providers_from_terraform_files(): its locals, file by file
    summary,            \* analyze_plan_resources(): the resource changes and the dict returned
    eip                 \* lambda_handler(): the event, the addresses of EC2, its locals

inputVars == << plan_file, plan, terraform_dir >>
extractVars == << glob_order, is_valid, provider_list, returned_at, ret, prev_ret, calls >>
mainVars == << pc, request_id_counter, requests, initialize_result, version, report_lines, report_file,
              exit_code, last_result >>
sideVars == << scan, summary, eip >>
vars == << inputVars, extractVars, norm, mainVars, sideVars >>

----------------------------------------------------------------------------
(* Bounds of the model *)

\* total size of one input: provider_configs entries + resource changes +
\* planned resources + configuration files (a file with k > 1 declarations counts k)
MaxSize == 2
\* calls of extract_providers_from_plan in one behaviour
MaxCalls == 2
\* normalize_provider_name inputs: a run of 0..MaxRun letters, then at most MaxTail characters
MaxRun == 11
MaxTail == 3
\* total size of the directory of one scan taken file by file (sized as in MaxSize)
MaxDirSize == 3
\* total size of resource_changes in analyze_plan_resources: a change counts 1,
\* or the number of its actions when it has more
MaxChangeSize == 2
\* Elastic IP addresses in the two regions together
MaxAddresses == 2

(* Program constants *)

\* len(parts[0]) >= 2 and len(parts[0]) <= 10
MinProviderLen == 2
MaxProviderLen == 10

----------------------------------------------------------------------------
(* Characters and strings *)

LowerChars == {"a", "b", "c", "e", "g", "h", "i", "l", "m", "o", "p", "r", "s", "t", "w", "x", "z"}
UpperChars == {"A", "B"}
DigitChars == {"1", "3"}

\* c in s
Contains(s, c) == \E i \in 1..Len(s) : s[i] = c

\* s.find(c) + 1: the position of the first c in s, 0 when there is none
IndexOf(s, c) ==
    IF Contains(s, c) THEN CHOOSE i \in 1..Len(s) : s[i] = c /\ \A j \in 1..(i - 1) : s[j] # c
    ELSE 0

\* s.split(c): the segments of s between the occurrences of c
RECURSIVE Split(_, _)
Split(s, c) ==
    LET i == IndexOf(s, c) IN
    IF i = 0 THEN << s >>
    ELSE << SubSeq(s, 1, i - 1) >> \o Split(SubSeq(s, i + 1, Len(s)), c)

\* s.split(c, 1): at most one split, at the first c
Split1(s, c) ==
    LET i == IndexOf(s, c) IN
    IF i = 0 THEN << s >>
    ELSE << SubSeq(s, 1, i - 1), SubSeq(s, i + 1, Len(s)) >>

\* str.islower(): at least one cased character, and no uppercase one
IsLower(s) ==
    /\ \E i \in 1..Len(s) : s[i] \in LowerChars \cup UpperChars
    /\ \A i \in 1..Len(s) : s[i] \notin UpperChars

\* the sequences over S of length at most n
SeqsUpTo(S, n) == UNION { [1..k -> S] : k \in 0..n }

\* the elements of a sequence
Range(s) == { s[i] : i \in 1..Len(s) }

hashicorp == << "h", "a", "s", "h", "i", "c", "o", "r", "p" >>

----------------------------------------------------------------------------
(* normalize_provider_name *)

\* the underscore split is applied to the name with its '.' qualifier still on
normalize_provider_name_SplitsName(name) ==
    LET base_name == IF Contains(name, ".") THEN Split(name, ".")[1] ELSE name IN
    IF Contains(name, "_")
    THEN LET parts == Split(name, "_") IN
         IF Len(parts[1]) >= MinProviderLen /\ Len(parts[1]) <= MaxProviderLen /\ IsLower(parts[1])
         THEN parts[1]
         ELSE base_name
    ELSE base_name

normalize_provider_name(name) ==
    LET base_name == IF Contains(name, ".") THEN Split(name, ".")[1] ELSE name IN
    IF Contains(base_name, "_")
    THEN LET parts == Split(base_name, "_") IN
         IF Len(parts[1]) >= MinProviderLen /\ Len(parts[1]) <= MaxProviderLen /\ IsLower(parts[1])
         THEN parts[1]
         ELSE base_name
    ELSE base_name

----------------------------------------------------------------------------
(* Values the inputs are drawn from *)

aws == << "a", "w", "s" >>
gcp == << "g", "c", "p" >>
acme == << "a", "c", "m", "e" >>
gcp_b == << "g", "c", "p", "_", "b" >>

\* a ProviderRef: the dict {"namespace": ..., "name": ...}
ProviderRef(namespace, name) == [namespace |-> namespace, name |-> name]

\* the value of one provider_configs key: not a dict (null), or a dict that may
\* carry full_provider_name and name ("" and has_name = FALSE when absent)
ProviderData(is_dict, full_provider_name, has_name, name) ==
    [is_dict |-> is_dict, full_provider_name |-> full_provider_name,
     has_name |-> has_name, name |-> name]

\* provider_configs items (key, value)
ConfigPool ==
    { [key |-> aws, data |-> ProviderData(FALSE, << >>, FALSE, << >>)],
      [key |-> aws \o << ".", "e" >>, data |-> ProviderData(TRUE, << >>, TRUE, aws)],
      [key |-> gcp_b, data |-> ProviderData(TRUE, acme \o << "/" >> \o gcp_b, FALSE, << >>)],
      [key |-> << "a", "z" >>, data |-> ProviderData(TRUE, << >>, TRUE, aws)] }

\* the "type" of a resource change or planned resource
TypePool ==
    { aws \o << "_", "s", "3" >>,
      gcp \o << "_", "x" >>,
      << "t", "l", "s" >>,
      << "B", "1", "_", "x" >> }

\* declarations  key = { source = "..." }  of a required_providers block
DeclPool ==
    { [key |-> aws, source |-> hashicorp \o << "/" >> \o aws],
      [key |-> << "a", "m", "z" >>, source |-> hashicorp \o << "/" >> \o aws],
      [key |-> aws, source |-> acme \o << "/" >> \o aws],
      [key |-> gcp_b, source |-> << "r", "/", "h", "/" >> \o gcp],
      [key |-> gcp, source |-> gcp] }

\* a *.tf file: unreadable (open or read raises), or its required_providers
\* declarations in textual order (none: no required_providers block)
TfFile(readable, decls) == [readable |-> readable, decls |-> decls]

FilesOfWeight(k) ==
    IF k = 1
    THEN { TfFile(FALSE, << >>), TfFile(TRUE, << >>) } \cup { TfFile(TRUE, << d >>) : d \in DeclPool }
    ELSE { TfFile(TRUE, ds) : ds \in [1..k -> DeclPool] }

\* the lists of files of total weight w
RECURSIVE FileListsOfWeight(_)
FileListsOfWeight(w) ==
    IF w = 0 THEN { << >> }
    ELSE UNION { { << f >> \o rest : f \in FilesOfWeight(k), rest \in FileListsOfWeight(w - k) }
                 : k \in 1..w }

\* the directories of total weight w; a missing directory weighs nothing
DirsOfWeight(w) ==
    { [exists |-> TRUE, files |-> fs] : fs \in FileListsOfWeight(w) }
    \cup (IF w = 0 THEN { [exists |-> FALSE, files |-> << >>] } ELSE { })

\* the orders Path.glob("*.tf") can enumerate n files in: any
GlobOrders(n) ==
    { p \in [1..n -> 1..n] : \A i, j \in 1..n : i # j => p[i] # p[j] }

\* provider_configs of n entries: a JSON object, so the keys differ
ConfigsOfSize(n) ==
    { cs \in [1..n -> ConfigPool] : \A i, j \in 1..n : i # j => cs[i].key # cs[j].key }

\* a JSON document: a number (not an object), or an object with these members
PlanDocument(json_type, fv, tv, has_configuration, configs, changes, planned) ==
    [json_type |-> json_type, format_version |-> fv, terraform_version |-> tv,
     has_configuration |-> has_configuration, provider_configs |-> configs,
     resource_changes |-> changes, planned_resources |-> planned]

NoDocument == PlanDocument("none", FALSE, FALSE, FALSE, << >>, << >>, << >>)
NumberDocument == PlanDocument("number", FALSE, FALSE, FALSE, << >>, << >>, << >>)

\* the top-level keys of the object
PlanKeys(p) ==
    (IF p.format_version THEN { "format_version" } ELSE { })
    \cup (IF p.terraform_version THEN { "terraform_version" } ELSE { })
    \cup (IF p.has_configuration THEN { "configuration" } ELSE { })
    \cup (IF p.resource_changes # << >> THEN { "resource_changes" } ELSE { })
    \cup (IF p.planned_resources # << >> THEN { "planned_values" } ELSE { })

----------------------------------------------------------------------------
(* extract_providers_from_terraform_files *)

\* re.search(r'required_providers\s*\{([^}]+)\}') stops at the first '}' of the
\* file after the block opens, which is the '}' closing the first declaration;
\* provider_pattern.findall then sees that first declaration only
BlockMatches(tf_file) == IF tf_file.decls = << >> THEN << >> ELSE << Head(tf_file.decls) >>

\* the first two of two or more segments are taken as (namespace, name)
ParseSource_AtLeastTwo(provider_name, source) ==
    LET source_parts == Split(source, "/") IN
    IF Len(source_parts) >= 2
    THEN ProviderRef(source_parts[1], source_parts[2])
    ELSE ProviderRef(hashicorp, provider_name)

\* source.split('/'): two segments are (namespace, name), else hashicorp/<key>
ParseSource(provider_name, source) ==
    LET source_parts == Split(source, "/") IN
    IF Len(source_parts) = 2
    THEN ProviderRef(source_parts[1], source_parts[2])
    ELSE ProviderRef(hashicorp, provider_name)

\* provider_sources is a dict: a sequence of (key, value) in insertion order
HasKey(provider_sources, k) == \E i \in 1..Len(provider_sources) : provider_sources[i].key = k

\* provider_sources[provider_name] is assigned whether or not the key is there
RECURSIVE RecordMatches_LastWins(_, _)
RecordMatches_LastWins(provider_sources, matches) ==
    IF matches = << >> THEN provider_sources
    ELSE LET m == Head(matches)
             value == ParseSource(m.key, m.source) IN
         RecordMatches_LastWins(
             IF HasKey(provider_sources, m.key)
             THEN [i \in 1..Len(provider_sources) |->
                     IF provider_sources[i].key = m.key
                     THEN [key |-> m.key, value |-> value]
                     ELSE provider_sources[i]]
             ELSE Append(provider_sources, [key |-> m.key, value |-> value]),
             Tail(matches))

RECURSIVE RecordMatches(_, _)
RecordMatches(provider_sources, matches) ==
    IF matches = << >> THEN provider_sources
    ELSE LET m == Head(matches) IN
         RecordMatches(
             IF HasKey(provider_sources, m.key) THEN provider_sources
             ELSE Append(provider_sources, [key |-> m.key, value |-> ParseSource(m.key, m.source)]),
             Tail(matches))

\* the body of the loop over *.tf: an unreadable file raises before anything
\* is recorded, and the except clause goes on to the next file
ScanFile(provider_sources, tf_file) ==
    IF ~tf_file.readable THEN provider_sources
    ELSE RecordMatches(provider_sources, BlockMatches(tf_file))

RECURSIVE ScanFiles(_, _, _)
ScanFiles(provider_sources, files, order) ==
    IF order = << >> THEN provider_sources
    ELSE ScanFiles(ScanFile(provider_sources, files[Head(order)]), files, Tail(order))

extract_providers_from_terraform_files(dir, order) ==
    IF ~dir.exists THEN << >>
    ELSE LET provider_sources == ScanFiles(<< >>, dir.files, order) IN
         [i \in 1..Len(provider_sources) |-> provider_sources[i].value]

----------------------------------------------------------------------------
(* extract_providers_from_resource_types *)

\* the length of the longest prefix of s matching [a-z][a-z0-9]*
RECURSIVE TokenLen(_, _)
TokenLen(s, n) ==
    IF n < Len(s) /\ s[n + 1] \in (IF n = 0 THEN LowerChars ELSE LowerChars \cup DigitChars)
    THEN TokenLen(s, n + 1)
    ELSE n

\* the token is not required to be followed by '_'
MatchProviderPrefix_NoUnderscore(resource_type) ==
    SubSeq(resource_type, 1, TokenLen(resource_type, 0))

\* re.match(r'^([a-z][a-z0-9]*)_', resource_type): group 1, or "" for no match
\* ('_' is not in the class, so only the longest token can be followed by it)
MatchProviderPrefix(resource_type) ==
    LET n == TokenLen(resource_type, 0) IN
    IF n >= 1 /\ n < Len(resource_type) /\ resource_type[n + 1] = "_"
    THEN SubSeq(resource_type, 1, n)
    ELSE << >>

\* one pass over a list of resources; st = [providers: set of names, provider_list]
RECURSIVE TypesLoop(_, _, _)
TypesLoop(st, types, normalize) ==
    IF types = << >> THEN st
    ELSE LET provider_match == MatchProviderPrefix(Head(types))
             provider_name == IF normalize THEN normalize_provider_name(provider_match)
                              ELSE provider_match
             next == IF Head(types) = << >> \/ provider_match = << >> \/ provider_name \in st.providers
                     THEN st
                     ELSE [providers |-> st.providers \cup { provider_name },
                           provider_list |-> Append(st.provider_list, ProviderRef(hashicorp, provider_name))]
         IN TypesLoop(next, Tail(types), normalize)

\* the loop over planned_values.root_module.resources is missing
extract_providers_from_resource_types_ChangesOnly(p) ==
    TypesLoop([providers |-> { }, provider_list |-> << >>], p.resource_changes, TRUE).provider_list

\* planned_values.root_module.resources is gone through before resource_changes
extract_providers_from_resource_types_PlannedFirst(p) ==
    TypesLoop(TypesLoop([providers |-> { }, provider_list |-> << >>], p.planned_resources, FALSE),
              p.resource_changes, TRUE).provider_list

extract_providers_from_resource_types(p) ==
    TypesLoop(TypesLoop([providers |-> { }, provider_list |-> << >>], p.resource_changes, TRUE),
              p.planned_resources, FALSE).provider_list

----------------------------------------------------------------------------
(* validate_plan_structure *)

\* "or" for "and" in the test of the two version keys
validate_plan_structure_EitherMissing(p) ==
    IF p.json_type = "number" THEN [raised |-> TRUE, is_valid |-> FALSE]
    ELSE IF PlanKeys(p) = { } THEN [raised |-> FALSE, is_valid |-> FALSE]
    ELSE IF "format_version" \notin PlanKeys(p) \/ "terraform_version" \notin PlanKeys(p)
         THEN [raised |-> FALSE, is_valid |-> FALSE]
    ELSE [raised |-> FALSE, is_valid |-> TRUE]

\* a non-zero number passes "not plan or plan == {}", and "format_version" not in
\* plan then raises TypeError
validate_plan_structure(p) ==
    IF p.json_type = "number" THEN [raised |-> TRUE, is_valid |-> FALSE]
    ELSE IF PlanKeys(p) = { } THEN [raised |-> FALSE, is_valid |-> FALSE]
    ELSE IF "format_version" \notin PlanKeys(p) /\ "terraform_version" \notin PlanKeys(p)
         THEN [raised |-> FALSE, is_valid |-> FALSE]
    ELSE [raised |-> FALSE, is_valid |-> TRUE]

----------------------------------------------------------------------------
(* extract_providers_from_plan *)

\* f"{namespace}/{name}"
ProviderKey(provider) == provider.namespace \o << "/" >> \o provider.name

\* if key not in providers: providers.add(key); provider_list.append(provider)
AddProvider(st, provider) ==
    IF ProviderKey(provider) \in st.providers THEN st
    ELSE [providers |-> st.providers \cup { ProviderKey(provider) },
          provider_list |-> Append(st.provider_list, provider)]

RECURSIVE AddProviders(_, _)
AddProviders(st, list) ==
    IF list = << >> THEN st ELSE AddProviders(AddProvider(st, Head(list)), Tail(list))

\* the name taken from full_provider_name is not normalized
ConfigProvider_FullNameKept(provider_key, provider_data) ==
    LET base_provider_key == normalize_provider_name(provider_key)
        full_name == provider_data.full_provider_name
    IN  IF provider_data.is_dict /\ full_name # << >> /\ Contains(full_name, "/")
        THEN ProviderRef(Split1(full_name, "/")[1], Split1(full_name, "/")[2])
        ELSE IF provider_data.is_dict /\ provider_data.has_name
        THEN ProviderRef(hashicorp, normalize_provider_name(provider_data.name))
        ELSE ProviderRef(hashicorp, base_provider_key)

\* Method 1, one provider_configs item: the namespace and name it yields
ConfigProvider(provider_key, provider_data) ==
    LET base_provider_key == normalize_provider_name(provider_key)
        full_name == provider_data.full_provider_name
    IN  IF provider_data.is_dict /\ full_name # << >> /\ Contains(full_name, "/")
        THEN ProviderRef(Split1(full_name, "/")[1], normalize_provider_name(Split1(full_name, "/")[2]))
        ELSE IF provider_data.is_dict /\ provider_data.has_name
        THEN ProviderRef(hashicorp, normalize_provider_name(provider_data.name))
        ELSE ProviderRef(hashicorp, base_provider_key)

\* Method 1: the loop over provider_configs.items()
RECURSIVE Method1(_, _)
Method1(st, provider_configs) ==
    IF provider_configs = << >> THEN st
    ELSE Method1(AddProvider(st, ConfigProvider(Head(provider_configs).key, Head(provider_configs).data)),
                 Tail(provider_configs))

\* Method 2: merge the providers of the resource types
Method2(st, p) == AddProviders(st, extract_providers_from_resource_types(p))

\* Method 3: the Terraform files, when the plan gave nothing
Method3(st, dir, order) ==
    IF st.provider_list = << >>
    THEN AddProviders(st, extract_providers_from_terraform_files(dir, order))
    ELSE st

\* the names are kept as they are
FinalPass_NoNormalize(list) ==
    AddProviders([providers |-> { }, provider_list |-> << >>], list).provider_list

\* final deduplication and normalization pass: final_providers.values()
RECURSIVE FinalLoop(_, _)
FinalLoop(st, list) ==
    IF list = << >> THEN st
    ELSE FinalLoop(AddProvider(st, ProviderRef(Head(list).namespace,
                                                normalize_provider_name(Head(list).name))),
                   Tail(list))

FinalPass(list) == FinalLoop([providers |-> { }, provider_list |-> << >>], list).provider_list

\* the fallback result is put through the final pass
FallbackReturn_Normalized(dir, order) ==
    FinalPass(extract_providers_from_terraform_files(dir, order))

\* return extract_providers_from_terraform_files(terraform_dir)
FallbackReturn(dir, order) == extract_providers_from_terraform_files(dir, order)

Returned(at, valid, list, value) ==
    [returned_at |-> at, is_valid |-> valid, provider_list |-> list, ret |-> value]

\* the call, with the directory enumerated in `order` should it be scanned
extract_providers_from_plan(file, p, dir, order) ==
    IF file = "absent"
    THEN Returned("not_found", "unset", << >>, FallbackReturn(dir, order))
    ELSE IF file = "malformed"
    THEN Returned("except_JSONDecodeError", "unset", << >>, FallbackReturn(dir, order))
    ELSE IF validate_plan_structure(p).raised
    THEN Returned("except_Exception", "unset", << >>, FallbackReturn(dir, order))
    ELSE IF ~validate_plan_structure(p).is_valid
    THEN Returned("not_valid", "False", << >>, FallbackReturn(dir, order))
    ELSE LET empty == [providers |-> { }, provider_list |-> << >>]
             m1 == Method1(empty, p.provider_configs)
             m2 == Method2(m1, p)
             m3 == Method3(m2, dir, order)
         IN Returned("final_list", "True", m2.provider_list, FinalPass(m3.provider_list))

----------------------------------------------------------------------------
(* The inputs of one behaviour *)

\* the object documents of size n: n = provider_configs + resource_changes + planned resources
ObjectDocuments(n) ==
    UNION { UNION { { PlanDocument("object", fv, tv, hc, cs, rc, pv) :
                        fv \in BOOLEAN, tv \in BOOLEAN,
                        hc \in (IF c > 0 THEN { TRUE } ELSE BOOLEAN),
                        cs \in ConfigsOfSize(c),
                        rc \in [1..r -> TypePool],
                        pv \in [1..(n - c - r) -> TypePool] }
                    : r \in 0..(n - c) }
            : c \in 0..n }

\* (plan_file, plan) of size n: no file, a file that is not JSON, a JSON number, an object
PlanInputs(n) ==
    (IF n = 0
     THEN { << "absent", NoDocument >>, << "malformed", NoDocument >>, << "present", NumberDocument >> }
     ELSE { })
    \cup { << "present", p >> : p \in ObjectDocuments(n) }

NoNorm == [x |-> << >>, once |-> << >>, twice |-> << >>, stage |-> 0]

\* main() is not running
MainIdle ==
    /\ pc = "idle"
    /\ request_id_counter = 0
    /\ requests = << >>
    /\ initialize_result = "unset"
    /\ version = "unset"
    /\ report_lines = << >>
    /\ report_file = "absent"
    /\ exit_code = 0
    /\ last_result = "none"

\* no scan, no summary and no Lambda invocation is under way
NoScan == [pc |-> "idle", next |-> 0, provider_sources |-> << >>, returned |-> << >>]
NoSummary ==
    [pc |-> "idle", readable |-> FALSE, resource_changes |-> << >>,
     result |-> [actions |-> { }, resources |-> << >>, total_resources |-> 0, resource_types |-> { }]]
NoEip ==
    [pc |-> "idle", event |-> [has_release |-> FALSE, release |-> ""], addresses |-> << >>,
     region |-> 0, unallocated_ips |-> << >>, ip |-> 0, released |-> << >>, statusCode |-> 0]

SideIdle == scan = NoScan /\ summary = NoSummary /\ eip = NoEip

----------------------------------------------------------------------------
(* Spec: calls of extract_providers_from_plan on one plan file and directory *)

Init ==
    /\ \E n \in 0..MaxSize : \E d \in 0..(MaxSize - n) :
         /\ \E input \in PlanInputs(n) : plan_file = input[1] /\ plan = input[2]
         /\ terraform_dir \in DirsOfWeight(d)
    /\ glob_order = << >>
    /\ is_valid = "unset"
    /\ provider_list = << >>
    /\ returned_at = "none"
    /\ ret = << >>
    /\ prev_ret = << >>
    /\ calls = 0
    /\ norm = NoNorm
    /\ MainIdle
    /\ SideIdle

\* providers = extract_providers_from_plan(plan_path, terraform_dir)
CallExtract ==
    /\ calls < MaxCalls
    /\ \E order \in GlobOrders(Len(terraform_dir.files)) :
         \E r \in { extract_providers_from_plan(plan_file, plan, terraform_dir, order) } :
            /\ glob_order' = (IF terraform_dir.exists
                                 /\ (r.returned_at # "final_list" \/ r.provider_list = << >>)
                              THEN order ELSE << >>)
            /\ is_valid' = r.is_valid
            /\ provider_list' = r.provider_list
            /\ returned_at' = r.returned_at
            /\ ret' = r.ret
    /\ prev_ret' = ret
    /\ calls' = calls + 1
    /\ UNCHANGED << inputVars, norm, mainVars, sideVars >>

Next == CallExtract

Spec == Init /\ [][Next]_vars

----------------------------------------------------------------------------
(* SpecConfigs: extract_providers_from_plan on plans that only declare provider_configs *)

ConfigKeyPool == { aws, aws \o << ".", "e" >>, gcp_b, << "a", "z" >> }

\* the values of a provider_configs key: null, {}, and objects carrying name,
\* full_provider_name (without '/', with one, with two) or both
ConfigDataPool ==
    { ProviderData(FALSE, << >>, FALSE, << >>),
      ProviderData(TRUE, << >>, FALSE, << >>),
      ProviderData(TRUE, << >>, TRUE, aws),
      ProviderData(TRUE, << >>, TRUE, gcp_b),
      ProviderData(TRUE, aws, FALSE, << >>),
      ProviderData(TRUE, acme \o << "/" >> \o gcp_b, FALSE, << >>),
      ProviderData(TRUE, << "r", "/" >> \o hashicorp \o << "/" >> \o aws, FALSE, << >>),
      ProviderData(TRUE, acme \o << "/" >> \o gcp_b, TRUE, aws),
      ProviderData(TRUE, aws, TRUE, gcp_b) }

InitConfigs ==
    /\ plan_file = "present"
    /\ \E n \in 0..MaxSize :
         \E cs \in [1..n -> [key : ConfigKeyPool, data : ConfigDataPool]] :
            /\ \A i, j \in 1..n : i # j => cs[i].key # cs[j].key
            /\ plan = PlanDocument("object", TRUE, TRUE, TRUE, cs, << >>, << >>)
    /\ terraform_dir = [exists |-> FALSE, files |-> << >>]
    /\ glob_order = << >>
    /\ is_valid = "unset"
    /\ provider_list = << >>
    /\ returned_at = "none"
    /\ ret = << >>
    /\ prev_ret = << >>
    /\ calls = 0
    /\ norm = NoNorm
    /\ MainIdle
    /\ SideIdle

SpecConfigs == InitConfigs /\ [][Next]_vars

----------------------------------------------------------------------------
(* SpecNormalize: normalize_provider_name applied to a string, and to its result *)

NormChars == { "a", "B", "1", "_", "." }

NormInputs ==
    { [i \in 1..n |-> "a"] \o tail : n \in 0..MaxRun, tail \in SeqsUpTo(NormChars, MaxTail) }

InitNormalize ==
    /\ plan_file = "absent"
    /\ plan = NoDocument
    /\ terraform_dir = [exists |-> FALSE, files |-> << >>]
    /\ glob_order = << >>
    /\ is_valid = "unset"
    /\ provider_list = << >>
    /\ returned_at = "none"
    /\ ret = << >>
    /\ prev_ret = << >>
    /\ calls = 0
    /\ MainIdle
    /\ SideIdle
    /\ \E x \in NormInputs : norm = [x |-> x, once |-> << >>, twice |-> << >>, stage |-> 0]

NormalizeOnce ==
    /\ norm.stage = 0
    /\ norm' = [norm EXCEPT !.once = normalize_provider_name(norm.x), !.stage = 1]
    /\ UNCHANGED << inputVars, extractVars, mainVars, sideVars >>

NormalizeTwice ==
    /\ norm.stage = 1
    /\ norm' = [norm EXCEPT !.twice = normalize_provider_name(norm.once), !.stage = 2]
    /\ UNCHANGED << inputVars, extractVars, mainVars, sideVars >>

NextNormalize == NormalizeOnce \/ NormalizeTwice

SpecNormalize == InitNormalize /\ [][NextNormalize]_vars

----------------------------------------------------------------------------
(* SpecScan: extract_providers_from_terraform_files, one file of the glob at a time *)

scanElse == << inputVars, is_valid, provider_list, returned_at, ret, prev_ret, calls, norm,
               mainVars, summary, eip >>

InitScan ==
    /\ plan_file = "absent"
    /\ plan = NoDocument
    /\ \E d \in 0..MaxDirSize : terraform_dir \in DirsOfWeight(d)
    /\ glob_order = << >>
    /\ is_valid = "unset"
    /\ provider_list = << >>
    /\ returned_at = "none"
    /\ ret = << >>
    /\ prev_ret = << >>
    /\ calls = 0
    /\ norm = NoNorm
    /\ MainIdle
    /\ summary = NoSummary
    /\ eip = NoEip
    /\ scan = [pc |-> "start", next |-> 0, provider_sources |-> << >>, returned |-> << >>]

\* if not tf_dir.exists(): return []; else tf_dir.glob("*.tf") enumerates the files
ScanStart ==
    /\ scan.pc = "start"
    /\ IF ~terraform_dir.exists
       THEN glob_order' = glob_order /\ scan' = [scan EXCEPT !.pc = "done"]
       ELSE \E order \in GlobOrders(Len(terraform_dir.files)) :
              glob_order' = order /\ scan' = [scan EXCEPT !.pc = "files", !.next = 1]
    /\ UNCHANGED scanElse

\* one turn of "for tf_file in tf_dir.glob('*.tf')"
ScanNextFile ==
    /\ scan.pc = "files"
    /\ scan.next <= Len(glob_order)
    /\ scan' = [scan EXCEPT
                  !.provider_sources = ScanFile(@, terraform_dir.files[glob_order[scan.next]]),
                  !.next = @ + 1]
    /\ UNCHANGED << glob_order, scanElse >>

\* providers = list(provider_sources.values()); return providers
ScanReturn ==
    /\ scan.pc = "files"
    /\ scan.next > Len(glob_order)
    /\ scan' = [scan EXCEPT
                  !.pc = "done",
                  !.returned = [i \in 1..Len(scan.provider_sources) |-> scan.provider_sources[i].value]]
    /\ UNCHANGED << glob_order, scanElse >>

NextScan == ScanStart \/ ScanNextFile \/ ScanReturn

SpecScan == InitScan /\ [][NextScan]_vars

----------------------------------------------------------------------------
(* analyze_plan_resources *)

\* the keys of the dict "actions"
ActionKinds == { "create", "update", "delete", "replace" }

\* the strings found in change.actions
ActionPool == ActionKinds \cup { "no-op", "read" }

unknown == << "u", "n", "k", "n", "o", "w", "n" >>

\* one element of resource_changes: its type and name (has_type, has_name FALSE:
\* the key is missing) and change.actions ([] when change or actions is missing)
ResourceChange(has_type, type, has_name, name, actions) ==
    [has_type |-> has_type, type |-> type, has_name |-> has_name, name |-> name, actions |-> actions]

ChangesOfWeight(k) ==
    { ResourceChange(tn[1], tn[2], tn[1], tn[3], al) :
        tn \in { << TRUE, aws \o << "_", "s", "3" >>, << "b" >> >>,
                 << TRUE, gcp \o << "_", "x" >>, << "b" >> >>,
                 << FALSE, << >>, << >> >> },
        al \in [1..k -> ActionPool] \cup (IF k = 1 THEN { << >> } ELSE { }) }

\* the lists of resource changes of total weight w
RECURSIVE ChangeListsOfWeight(_)
ChangeListsOfWeight(w) ==
    IF w = 0 THEN { << >> }
    ELSE UNION { { << c >> \o rest : c \in ChangesOfWeight(k), rest \in ChangeListsOfWeight(w - k) }
                 : k \in 1..w }

\* a dict is the set of its (key, value) pairs
InDict(dict, key) == \E kv \in dict : kv[1] = key

\* only the first action of each change is counted
RECURSIVE CountActions_FirstOnly(_, _)
CountActions_FirstOnly(actions, actions_list) ==
    IF actions_list = << >> THEN actions
    ELSE LET action == Head(actions_list) IN
         IF InDict(actions, action)
         THEN { IF kv[1] = action THEN << action, kv[2] + 1 >> ELSE kv : kv \in actions }
         ELSE actions

\* for action in actions_list: if action in actions: actions[action] += 1
RECURSIVE CountActions(_, _)
CountActions(actions, actions_list) ==
    IF actions_list = << >> THEN actions
    ELSE LET action == Head(actions_list) IN
         CountActions(
             IF InDict(actions, action)
             THEN { IF kv[1] = action THEN << action, kv[2] + 1 >> ELSE kv : kv \in actions }
             ELSE actions,
             Tail(actions_list))

\* the loop over resource_changes; st = [actions, resources, resource_types]
RECURSIVE ChangesLoop(_, _)
ChangesLoop(st, resource_changes) ==
    IF resource_changes = << >> THEN st
    ELSE LET change == Head(resource_changes)
             resource_type == IF change.has_type THEN change.type ELSE unknown
             resource_name == IF change.has_name THEN change.name ELSE unknown
         IN ChangesLoop(
                [actions |-> CountActions(st.actions, change.actions),
                 resources |-> Append(st.resources,
                                      [type |-> resource_type, name |-> resource_name,
                                       actions |-> change.actions]),
                 resource_types |-> st.resource_types \cup { resource_type }],
                Tail(resource_changes))

\* the dict returned; resource_types, a sorted list without repeats, is given
\* as the set of its elements; a plan that cannot be opened or parsed raises,
\* and the except clause returns the dict of the empty analysis
analyze_plan_resources(readable, resource_changes) ==
    IF ~readable
    THEN [actions |-> { }, resources |-> << >>, total_resources |-> 0, resource_types |-> { }]
    ELSE LET st == ChangesLoop([actions |-> { << k, 0 >> : k \in ActionKinds },
                                resources |-> << >>, resource_types |-> { }],
                               resource_changes)
         IN [actions |-> st.actions, resources |-> st.resources,
             total_resources |-> Len(st.resources), resource_types |-> st.resource_types]

----------------------------------------------------------------------------
(* SpecAnalyze: one call of analyze_plan_resources *)

InitAnalyze ==
    /\ plan_file = "absent"
    /\ plan = NoDocument
    /\ terraform_dir = [exists |-> FALSE, files |-> << >>]
    /\ glob_order = << >>
    /\ is_valid = "unset"
    /\ provider_list = << >>
    /\ returned_at = "none"
    /\ ret = << >>
    /\ prev_ret = << >>
    /\ calls = 0
    /\ norm = NoNorm
    /\ MainIdle
    /\ scan = NoScan
    /\ eip = NoEip
    /\ \E readable \in BOOLEAN :
         \E w \in (IF readable THEN 0..MaxChangeSize ELSE { 0 }) :
            \E rc \in ChangeListsOfWeight(w) :
               summary = [NoSummary EXCEPT !.pc = "start", !.readable = readable,
                                           !.resource_changes = rc]

\* resource_analysis = analyze_plan_resources(plan_path)
Analyze ==
    /\ summary.pc = "start"
    /\ summary' = [summary EXCEPT
                     !.pc = "done",
                     !.result = analyze_plan_resources(summary.readable, summary.resource_changes)]
    /\ UNCHANGED << inputVars, extractVars, norm, mainVars, scan, eip >>

NextAnalyze == Analyze

SpecAnalyze == InitAnalyze /\ [][NextAnalyze]_vars

----------------------------------------------------------------------------
(* lambda_function.py *)

\* used_regions = ['us-east-1', 'eu-west-2']
used_regions == << "us-east-1", "eu-west-2" >>

\* the event: without a 'release' key, or with one of these values
EventPool ==
    { [has_release |-> FALSE, release |-> ""] }
    \cup { [has_release |-> TRUE, release |-> v] : v \in { "Y", "y", "N" } }

\* what describe_addresses answers in a region: it raises, or it lists n
\* addresses, each with or without an AssociationId; the allocation id of an
\* address is told by its region and place
RegionAnswers(region, n) ==
    { [raises |-> FALSE,
       Addresses |-> [j \in 1..n |-> [AllocationId |-> << region, j >>, associated |-> assoc[j]]]]
        : assoc \in [1..n -> BOOLEAN] }
    \cup (IF n = 0 THEN { [raises |-> TRUE, Addresses |-> << >>] } ELSE { })

\* the answers of the two regions, n addresses in all
Ec2Answers(n) ==
    UNION { { << first, second >> : first \in RegionAnswers(1, k), second \in RegionAnswers(2, n - k) }
            : k \in 0..n }

\* find_unallocated_eips, one region: what is appended to unallocated_ips;
\* nothing when describe_addresses raises
Unallocated(region, answer) ==
    IF answer.raises THEN << >>
    ELSE LET free == SelectSeq(answer.Addresses, LAMBDA address : ~address.associated) IN
         [j \in 1..Len(free) |->
            [Region |-> used_regions[region], AllocationId |-> free[j].AllocationId]]

\* any value of 'release' will do
ShouldRelease_AnyValue(event) == event.has_release

\* 'release' in event and event['release'] == 'Y'
ShouldRelease(event) == event.has_release /\ event.release = "Y"

----------------------------------------------------------------------------
(* SpecLambda: one invocation of lambda_handler *)

InitLambda ==
    /\ plan_file = "absent"
    /\ plan = NoDocument
    /\ terraform_dir = [exists |-> FALSE, files |-> << >>]
    /\ glob_order = << >>
    /\ is_valid = "unset"
    /\ provider_list = << >>
    /\ returned_at = "none"
    /\ ret = << >>
    /\ prev_ret = << >>
    /\ calls = 0
    /\ norm = NoNorm
    /\ MainIdle
    /\ scan = NoScan
    /\ summary = NoSummary
    /\ \E event \in EventPool : \E n \in 0..MaxAddresses : \E answers \in Ec2Answers(n) :
         eip = [NoEip EXCEPT !.pc = "find", !.event = event, !.addresses = answers,
                           !.region = 1, !.ip = 1]

\* find_unallocated_eips: one turn of "for region in regions"
LambdaDescribeRegion ==
    /\ eip.pc = "find"
    /\ eip' = [eip EXCEPT
                 !.unallocated_ips = @ \o Unallocated(eip.region, eip.addresses[eip.region]),
                 !.region = @ + 1,
                 !.pc = IF eip.region = Len(used_regions) THEN "loop" ELSE "find"]
    /\ UNCHANGED << inputVars, extractVars, norm, mainVars, scan, summary >>

\* one turn of "for ip in unallocated_ips"; release_address may raise, and
\* nothing in lambda_handler catches it
LambdaReleaseOrDryRun ==
    /\ eip.pc = "loop"
    /\ eip.ip <= Len(eip.unallocated_ips)
    /\ IF ShouldRelease(eip.event)
       THEN \E raises \in BOOLEAN :
              eip' = [eip EXCEPT
                        !.released = Append(@, eip.unallocated_ips[eip.ip]),
                        !.ip = @ + 1,
                        !.pc = IF raises THEN "raised" ELSE "loop"]
       ELSE eip' = [eip EXCEPT !.ip = @ + 1]
    /\ UNCHANGED << inputVars, extractVars, norm, mainVars, scan, summary >>

\* return {"statusCode": 200}
LambdaReturn ==
    /\ eip.pc = "loop"
    /\ eip.ip > Len(eip.unallocated_ips)
    /\ eip' = [eip EXCEPT !.pc = "done", !.statusCode = 200]
    /\ UNCHANGED << inputVars, extractVars, norm, mainVars, scan, summary >>

NextLambda == LambdaDescribeRegion \/ LambdaReleaseOrDryRun \/ LambdaReturn

SpecLambda == InitLambda /\ [][NextLambda]_vars

----------------------------------------------------------------------------
(* The MCP server, as send_mcp_request sees it *)

\* what one "docker run" of the server does with a request
McpOutcomes ==
    { "result",             \* {"result": {...}} carrying what the caller looks for
      "result_without",     \* {"result": {...}} without it (no capabilities, no content)
      "error_response",     \* {"error": {...}}
      "unparseable",        \* the last line of stdout is not JSON
      "nonzero_exit",       \* process.returncode != 0
      "timeout",            \* subprocess.TimeoutExpired after 30 seconds
      "docker_not_found" }  \* FileNotFoundError

\* the counter is returned without being incremented
get_next_request_id_NoIncrement(counter) == counter

\* get_next_request_id(): the incremented counter, which is also the id returned
get_next_request_id(counter) == counter + 1

\* send_mcp_request: the result handed to the caller; {} is "empty"
send_mcp_request(outcome) ==
    IF outcome = "result" THEN "full"
    ELSE IF outcome = "result_without" THEN "bare"
    ELSE "empty"

\* initialize_mcp() answers True whatever the server said
initialize_mcp_AlwaysTrue(result) == TRUE

\* initialize_mcp(): "capabilities" in result
initialize_mcp(result) == result = "full"

\* get_provider_version(): the text of the content, or None
get_provider_version(result) == IF result = "full" THEN "found" ELSE "none"

\* search_modules(): the modules parsed from the content, or []
search_modules(result) == IF result = "full" THEN "found" ELSE "none"

----------------------------------------------------------------------------
(* SpecMain: one run of main() *)

InitMain ==
    /\ \E n \in 0..MaxSize : \E d \in 0..(MaxSize - n) :
         /\ \E input \in PlanInputs(n) : plan_file = input[1] /\ plan = input[2]
         /\ terraform_dir \in DirsOfWeight(d)
    /\ glob_order = << >>
    /\ is_valid = "unset"
    /\ provider_list = << >>
    /\ returned_at = "none"
    /\ ret = << >>
    /\ prev_ret = << >>
    /\ calls = 0
    /\ norm = NoNorm
    /\ pc = "check_plan"
    /\ request_id_counter = 0
    /\ requests = << >>
    /\ initialize_result = "unset"
    /\ version = "unset"
    /\ report_lines = << >>
    /\ report_file = "absent"
    /\ exit_code = 0
    /\ last_result = "none"
    /\ SideIdle

\* send_mcp_request(method): the request takes the next id
Sent(method, params) ==
    /\ request_id_counter' = get_next_request_id(request_id_counter)
    /\ requests' = Append(requests, [id |-> request_id_counter', method |-> method, params |-> params])

\* params of a tools/call request: the tool and its arguments; the params of
\* initialize, always the same, are left as the empty ToolCall
ToolCall(name, arguments) == [name |-> name, arguments |-> arguments]

\* if not os.path.exists(plan_path): sys.exit(1)
MainCheckPlan ==
    /\ pc = "check_plan"
    /\ IF plan_file = "absent"
       THEN pc' = "exited" /\ exit_code' = 1
       ELSE pc' = "initialize_mcp" /\ exit_code' = exit_code
    /\ UNCHANGED << inputVars, extractVars, norm, sideVars, request_id_counter, requests,
                    initialize_result, version, report_lines, report_file, last_result >>

\* if not initialize_mcp(): sys.exit(1)
MainInitializeMcp ==
    /\ pc = "initialize_mcp"
    /\ Sent("initialize", ToolCall("", << >>))
    /\ \E outcome \in McpOutcomes :
         /\ last_result' = send_mcp_request(outcome)
         /\ initialize_result' = last_result'
         /\ IF initialize_mcp(initialize_result')
            THEN pc' = "extract_providers" /\ exit_code' = exit_code
            ELSE pc' = "exited" /\ exit_code' = 1
    /\ UNCHANGED << inputVars, extractVars, norm, sideVars, version, report_lines, report_file >>

\* providers = extract_providers_from_plan(plan_path, terraform_dir)
MainExtractProviders ==
    /\ pc = "extract_providers"
    /\ \E order \in GlobOrders(Len(terraform_dir.files)) :
         \E r \in { extract_providers_from_plan(plan_file, plan, terraform_dir, order) } :
            /\ glob_order' = (IF terraform_dir.exists
                                 /\ (r.returned_at # "final_list" \/ r.provider_list = << >>)
                              THEN order ELSE << >>)
            /\ is_valid' = r.is_valid
            /\ provider_list' = r.provider_list
            /\ returned_at' = r.returned_at
            /\ ret' = r.ret
            /\ pc' = "analyze_plan"
    /\ prev_ret' = ret
    /\ calls' = calls + 1
    /\ UNCHANGED << inputVars, norm, sideVars, request_id_counter, requests, initialize_result,
                    version, report_lines, report_file, exit_code, last_result >>

\* the resource_changes of the plan as analyze_plan_resources reads them: the
\* plans of main() give each change its "type" and neither "name" nor "change"
PlanChanges(p) ==
    [i \in 1..Len(p.resource_changes) |->
        ResourceChange(TRUE, p.resource_changes[i], FALSE, << >>, << >>)]

\* plan_analysis = analyze_plan_resources(plan_path); the loop over the
\* providers is entered when there are any
MainAnalyzePlan ==
    /\ pc = "analyze_plan"
    /\ \E readable \in { plan_file = "present" /\ plan.json_type = "object" } :
         summary' = [pc |-> "done", readable |-> readable, resource_changes |-> PlanChanges(plan),
                     result |-> analyze_plan_resources(readable, PlanChanges(plan))]
    /\ pc' = (IF ret = << >> THEN "write_report" ELSE "get_provider_version")
    /\ UNCHANGED << inputVars, extractVars, norm, scan, eip, request_id_counter, requests,
                    initialize_result, version, report_lines, report_file, exit_code, last_result >>

\* a lookup that comes back empty ends the run with exit status 1
MainGetProviderVersion_AbortsOnFailure ==
    /\ pc = "get_provider_version"
    /\ Sent("tools/call", ToolCall("get_latest_provider_version",
                                   << ret[Len(report_lines) + 1].namespace,
                                      ret[Len(report_lines) + 1].name >>))
    /\ \E outcome \in McpOutcomes :
         /\ last_result' = send_mcp_request(outcome)
         /\ version' = get_provider_version(last_result')
         /\ IF last_result' = "empty"
            THEN pc' = "exited" /\ exit_code' = 1
            ELSE pc' = "search_modules" /\ exit_code' = exit_code
    /\ UNCHANGED << inputVars, extractVars, norm, sideVars, initialize_result, report_lines,
                    report_file >>

\* version = get_provider_version(namespace, name), for the next provider of the loop
MainGetProviderVersion ==
    /\ pc = "get_provider_version"
    /\ Sent("tools/call", ToolCall("get_latest_provider_version",
                                   << ret[Len(report_lines) + 1].namespace,
                                      ret[Len(report_lines) + 1].name >>))
    /\ \E outcome \in McpOutcomes :
         /\ last_result' = send_mcp_request(outcome)
         /\ version' = get_provider_version(last_result')
    /\ pc' = "search_modules"
    /\ UNCHANGED << inputVars, extractVars, norm, sideVars, initialize_result, report_lines,
                    report_file, exit_code >>

\* the loop over the providers is left after its first turn
MainSearchModules_OneTurn ==
    /\ pc = "search_modules"
    /\ Sent("tools/call", ToolCall("search_modules", << ret[Len(report_lines) + 1].name >>))
    /\ \E outcome \in McpOutcomes :
         /\ last_result' = send_mcp_request(outcome)
         /\ report_lines' = Append(report_lines,
                                    [provider |-> ret[Len(report_lines) + 1],
                                     version |-> version,
                                     modules |-> search_modules(last_result')])
    /\ version' = "unset"
    /\ pc' = "write_report"
    /\ UNCHANGED << inputVars, extractVars, norm, sideVars, initialize_result, report_file, exit_code >>

\* modules = search_modules(name, limit=3); the provider's section is appended
MainSearchModules ==
    /\ pc = "search_modules"
    /\ Sent("tools/call", ToolCall("search_modules", << ret[Len(report_lines) + 1].name >>))
    /\ \E outcome \in McpOutcomes :
         /\ last_result' = send_mcp_request(outcome)
         /\ report_lines' = Append(report_lines,
                                    [provider |-> ret[Len(report_lines) + 1],
                                     version |-> version,
                                     modules |-> search_modules(last_result')])
    /\ version' = "unset"
    /\ pc' = (IF Len(report_lines') = Len(ret) THEN "write_report" ELSE "get_provider_version")
    /\ UNCHANGED << inputVars, extractVars, norm, sideVars, initialize_result, report_file, exit_code >>

\* with open("mcp_validation_report.txt", "w") ...; main() returns
MainWriteReport ==
    /\ pc = "write_report"
    /\ report_file' = "written"
    /\ pc' = "done"
    /\ exit_code' = 0
    /\ UNCHANGED << inputVars, extractVars, norm, sideVars, request_id_counter, requests,
                    initialize_result, version, report_lines, last_result >>

NextMain ==
    \/ MainCheckPlan
    \/ MainInitializeMcp
    \/ MainExtractProviders
    \/ MainAnalyzePlan
    \/ MainGetProviderVersion
    \/ MainSearchModules
    \/ MainWriteReport

SpecMain == InitMain /\ [][NextMain]_vars

----------------------------------------------------------------------------
(* What the claims speak of, stated apart from the operators above *)

\* the plan file holds a JSON object
IsObject == plan_file = "present" /\ plan.json_type = "object"

\* the document carries a version key
HasVersionKey == plan.format_version \/ plan.terraform_version

\* the plan cannot be used: no file, not JSON, not an object, or structurally invalid
PlanUnusable == ~IsObject \/ ~HasVersionKey

\* a valid plan document
PlanValid == IsObject /\ HasVersionKey

\* p is the leading token of resource type t under ^[a-z][a-z0-9]*_
IsTypePrefix(p, t) ==
    /\ Len(p) >= 1
    /\ Len(t) > Len(p)
    /\ \A i \in 1..Len(p) : t[i] = p[i]
    /\ t[Len(p) + 1] = "_"
    /\ p[1] \in LowerChars
    /\ \A i \in 1..Len(p) : p[i] \in LowerChars \cup DigitChars

\* the type fields of all resource_changes and all planned resources
PlanTypes == Range(plan.resource_changes) \cup Range(plan.planned_resources)

\* { hashicorp/<p> } over the leading tokens of the plan's resource types
TypeProviders ==
    UNION { { ProviderRef(hashicorp, SubSeq(t, 1, k)) :
                k \in { n \in 1..Len(t) : IsTypePrefix(SubSeq(t, 1, n), t) } }
            : t \in PlanTypes }

\* the providers the provider_configs entries declare
DeclaredProviders ==
    { ConfigProvider(plan.provider_configs[i].key, plan.provider_configs[i].data) :
        i \in 1..Len(plan.provider_configs) }

\* no two elements of the list share namespace + "/" + name
UniqueKeys(list) ==
    \A i, j \in 1..Len(list) : i # j => ProviderKey(list[i]) # ProviderKey(list[j])

----------------------------------------------------------------------------
(* C1..C5 *)

\* C1: whenever the plan cannot be used (no file, not JSON, not an object, or
\* structurally invalid, the plan {} included), extract_providers_from_plan
\* returns, through one of its fallback returns, exactly the list that
\* extract_providers_from_terraform_files returns for the directory.
C1_FallbackTotality ==
    (calls > 0 /\ PlanUnusable) =>
        /\ returned_at \in { "not_found", "except_JSONDecodeError", "except_Exception", "not_valid" }
        /\ ret = extract_providers_from_terraform_files(terraform_dir, glob_order)

\* the plan is {} and the scan of the directory found an un-normalized name
C1_Witness ==
    /\ calls > 0
    /\ IsObject /\ PlanKeys(plan) = { }
    /\ returned_at = "not_valid"
    /\ \E i \in 1..Len(ret) : ret[i].name = gcp_b

\* C2 as stated: for a valid plan with a non-empty provider_configs the result
\* is exactly the declared providers, each once, whatever the resource types.
C2_OnlyDeclared ==
    (calls > 0 /\ PlanValid /\ plan.provider_configs # << >>) =>
        /\ Range(ret) = DeclaredProviders
        /\ UniqueKeys(ret)

\* C2 as amended: for a valid plan with a non-empty provider_configs the result
\* holds every declared provider once, ahead of all others, and every other
\* element is hashicorp/<leading token> of a resource type of the plan.
C2_DeclaredThenTypes ==
    (calls > 0 /\ PlanValid /\ plan.provider_configs # << >>) =>
        /\ UniqueKeys(ret)
        /\ DeclaredProviders \subseteq Range(ret)
        /\ \A i \in 1..Len(ret) : ret[i] \notin DeclaredProviders => ret[i] \in TypeProviders
        /\ \A i, j \in 1..Len(ret) :
             (ret[i] \in DeclaredProviders /\ ret[j] \notin DeclaredProviders) => i < j

\* a declared provider is followed by one that only a resource type gives
C2_Witness ==
    /\ calls > 0 /\ PlanValid /\ plan.provider_configs # << >>
    /\ Len(ret) = 2
    /\ ret[1] \in DeclaredProviders
    /\ ret[2] \notin DeclaredProviders

\* C3: for a valid plan with no provider_configs, plan-based extraction yields
\* exactly { hashicorp/<p> }, p the leading tokens matching ^[a-z][a-z0-9]*_ of
\* the types of resource_changes and planned resources, each once; when that
\* set is not empty it is the returned list.
C3_TypePrefixes ==
    (calls > 0 /\ PlanValid /\ plan.provider_configs = << >>) =>
        /\ Range(provider_list) = TypeProviders
        /\ Len(provider_list) = Cardinality(TypeProviders)
        /\ TypeProviders # { } => ret = provider_list

\* resource_changes = [aws_s3] and a planned resource whose type does not match
C3_Witness ==
    /\ calls > 0 /\ PlanValid /\ plan.provider_configs = << >>
    /\ plan.resource_changes = << aws \o << "_", "s", "3" >> >>
    /\ plan.planned_resources = << << "B", "1", "_", "x" >> >>
    /\ ret = << ProviderRef(hashicorp, aws) >>

\* C4: normalize_provider_name(normalize_provider_name(x)) = normalize_provider_name(x)
C4_Idempotent == norm.stage = 2 => norm.twice = norm.once

\* a qualified name with underscores was reduced, and normalized again
C4_Witness ==
    /\ norm.stage = 2
    /\ Contains(norm.x, ".") /\ Contains(norm.x, "_")
    /\ norm.once # norm.x
    /\ Len(norm.once) >= MinProviderLen

\* main() has ended
MainEnded == pc \in { "exited", "done" }

----------------------------------------------------------------------------
(* C6..C10 *)

\* C6: on every path, the list extract_providers_from_plan returns holds no
\* two ProviderRefs with the same namespace + "/" + name.
C6_UniqueKeys == calls > 0 => UniqueKeys(ret)

\* name is lowercase, has no '.' qualifier, and normalize_provider_name keeps it
NormalizedName(name) ==
    /\ \A i \in 1..Len(name) : name[i] \notin UpperChars
    /\ ~Contains(name, ".")
    /\ normalize_provider_name(name) = name

\* C7: on every path, every ProviderRef extract_providers_from_plan returns
\* has a normalized name.
C7_NormalizedNames == calls > 0 => \A i \in 1..Len(ret) : NormalizedName(ret[i].name)

\* C8: two calls of extract_providers_from_plan on the same plan file and the
\* same directory return the same list.
C8_Deterministic == calls >= 2 => ret = prev_ret

\* C9: validate_plan_structure reports an object INVALID if and only if it is
\* {} or lacks both format_version and terraform_version; otherwise VALID,
\* with or without a configuration.
C9_ValidIffVersionKey ==
    (calls > 0 /\ IsObject) =>
        /\ is_valid \in { "True", "False" }
        /\ is_valid = "False" <=>
             (PlanKeys(plan) = { } \/ (~plan.format_version /\ ~plan.terraform_version))

\* a document with one version key, resource changes and no configuration was
\* found valid
C9_Witness ==
    /\ calls > 0 /\ IsObject
    /\ plan.terraform_version /\ ~plan.format_version /\ ~plan.has_configuration
    /\ plan.resource_changes # << >>
    /\ is_valid = "True"

\* the plan is valid and Methods 1 and 2 found no provider
PlanGaveNothing == calls > 0 /\ PlanValid /\ provider_list = << >>

\* what the scan of the directory returned in the last call
Scanned == extract_providers_from_terraform_files(terraform_dir, glob_order)

\* a scanned ProviderRef with its name normalized
Normalized(provider) == ProviderRef(provider.namespace, normalize_provider_name(provider.name))

\* the position of the first scanned ProviderRef that normalizes to r
FirstScanned(r) ==
    CHOOSE i \in 1..Len(Scanned) :
        Normalized(Scanned[i]) = r /\ \A j \in 1..(i - 1) : Normalized(Scanned[j]) # r

\* C10 as stated: when the plan is valid and gives no provider, the result is
\* the scanner's result unchanged.
C10_ScannerUnchanged == PlanGaveNothing => ret = Scanned

\* C10 as amended: when the plan is valid and gives no provider, the result is
\* the scanner's result with every name normalized and, of the ProviderRefs
\* that then share namespace/name, only the first kept, in the scanner's order;
\* it is empty when the scanner finds nothing.
C10_ScannerNormalized ==
    PlanGaveNothing =>
        /\ Range(ret) = { Normalized(Scanned[i]) : i \in 1..Len(Scanned) }
        /\ UniqueKeys(ret)
        /\ \A i, j \in 1..Len(ret) : i < j => FirstScanned(ret[i]) < FirstScanned(ret[j])
        /\ Scanned = << >> => ret = << >>

\* the scanner's list was returned with a name normalized
C10_Witness ==
    /\ PlanGaveNothing
    /\ returned_at = "final_list"
    /\ Len(ret) = 2
    /\ ret # Scanned
    /\ \E i \in 1..Len(Scanned) : Scanned[i].name = gcp_b

----------------------------------------------------------------------------
(* C11..C15 *)

\* the scan of an existing directory has returned
ScanDone == scan.pc = "done" /\ terraform_dir.exists

\* the configuration files that can be read
ReadableFiles == { f \in Range(terraform_dir.files) : f.readable }

\* the block keys declared in the required_providers blocks of the readable files
DeclaredKeys == { d.key : d \in UNION { Range(f.decls) : f \in ReadableFiles } }

\* the block keys the scan has recorded a ProviderRef for
RecordedKeys == { scan.provider_sources[i].key : i \in 1..Len(scan.provider_sources) }

\* C11: the scan yields a ProviderRef for every entry declared in a
\* required_providers block (one per block key), not only for the first entry
\* of the block.
C11_EveryDeclaration ==
    ScanDone =>
        /\ DeclaredKeys \subseteq RecordedKeys
        /\ Len(scan.returned) = Cardinality(DeclaredKeys)

\* the positions of '/' in a source string
SlashPositions(source) == { i \in 1..Len(source) : source[i] = "/" }

\* the ProviderRef C12 gives for a declaration: around the only '/', or hashicorp/<key>
SegmentsRef(d) ==
    IF Cardinality(SlashPositions(d.source)) = 1
    THEN LET k == CHOOSE i \in SlashPositions(d.source) : TRUE IN
         ProviderRef(SubSeq(d.source, 1, k - 1), SubSeq(d.source, k + 1, Len(d.source)))
    ELSE ProviderRef(hashicorp, d.key)

\* the first file of the glob whose block starts with a declaration of key k
FirstDeclaring(k) ==
    CHOOSE i \in 1..Len(glob_order) :
        LET Declares(j) == LET f == terraform_dir.files[glob_order[j]] IN
                           f.readable /\ f.decls # << >> /\ Head(f.decls).key = k
        IN Declares(i) /\ \A j \in 1..(i - 1) : ~Declares(j)

\* C12: a ProviderRef the scanner records for a block key comes from the source
\* of a declaration of that key: (first segment, second segment) when the
\* source has exactly two '/'-separated segments, (hashicorp, key) for any
\* other number of segments.
C12_SourceSegments ==
    \A i \in 1..Len(scan.provider_sources) :
        LET e == scan.provider_sources[i] IN
        e.value = SegmentsRef(Head(terraform_dir.files[glob_order[FirstDeclaring(e.key)]].decls))

\* sources of three segments and of two segments were parsed in one scan
C12_Witness ==
    /\ ScanDone
    /\ \E i, j \in 1..Len(scan.provider_sources) :
         /\ scan.provider_sources[i] = [key |-> gcp_b, value |-> ProviderRef(hashicorp, gcp_b)]
         /\ scan.provider_sources[j] = [key |-> aws, value |-> ProviderRef(acme, aws)]

\* the first '/' of a string that has one
FirstSlash(str) == CHOOSE i \in SlashPositions(str) : \A j \in SlashPositions(str) : i <= j

\* the ProviderRef of a provider_configs item by key and full_provider_name alone
KeyOrFullNameRef(item) ==
    IF item.data.is_dict /\ SlashPositions(item.data.full_provider_name) # { }
    THEN LET full == item.data.full_provider_name IN
         ProviderRef(SubSeq(full, 1, FirstSlash(full) - 1),
                     normalize_provider_name(SubSeq(full, FirstSlash(full) + 1, Len(full))))
    ELSE ProviderRef(hashicorp, normalize_provider_name(item.key))

\* the same, with the name field standing in for the key when the item has one
KeyNameOrFullNameRef(item) ==
    IF item.data.is_dict /\ SlashPositions(item.data.full_provider_name) = { } /\ item.data.has_name
    THEN ProviderRef(hashicorp, normalize_provider_name(item.data.name))
    ELSE KeyOrFullNameRef(item)

\* a valid plan that declares provider_configs and no resources has been extracted
OnlyConfigs ==
    /\ calls > 0 /\ PlanValid
    /\ plan.resource_changes = << >> /\ plan.planned_resources = << >>

\* C13 as stated: Method 1 yields, for every provider_configs key,
\* (hashicorp, normalize(key)), or (namespace, normalize(name)) from a
\* full_provider_name namespace/name, and nothing else of the entry matters.
C13_KeyOrFullName ==
    OnlyConfigs =>
        /\ Range(provider_list) = { KeyOrFullNameRef(plan.provider_configs[i]) :
                                      i \in 1..Len(plan.provider_configs) }
        /\ UniqueKeys(provider_list)

\* C13 as amended: Method 1 yields, for every provider_configs key, (text
\* before the first '/', normalize(text after it)) from a full_provider_name
\* containing '/'; else (hashicorp, normalize(name field)) when the entry has
\* a name field; else (hashicorp, normalize(key)).
C13_KeyNameOrFullName ==
    OnlyConfigs =>
        /\ Range(provider_list) = { KeyNameOrFullNameRef(plan.provider_configs[i]) :
                                      i \in 1..Len(plan.provider_configs) }
        /\ UniqueKeys(provider_list)

\* one key took its name from the name field, another both parts from full_provider_name
C13_Witness ==
    /\ OnlyConfigs
    /\ \E i, j \in 1..Len(plan.provider_configs) :
         /\ plan.provider_configs[i] = [key |-> << "a", "z" >>, data |-> ProviderData(TRUE, << >>, TRUE, gcp_b)]
         /\ plan.provider_configs[j].data = ProviderData(TRUE, acme \o << "/" >> \o gcp_b, TRUE, aws)
    /\ provider_list = << ProviderRef(hashicorp, gcp), ProviderRef(acme, gcp) >>

\* the number of occurrences of k in the list
RECURSIVE Occurrences(_, _)
Occurrences(k, list) ==
    IF list = << >> THEN 0
    ELSE (IF Head(list) = k THEN 1 ELSE 0) + Occurrences(k, Tail(list))

\* all action lists of the resource changes, one after the other
RECURSIVE AllActions(_)
AllActions(resource_changes) ==
    IF resource_changes = << >> THEN << >>
    ELSE Head(resource_changes).actions \o AllActions(Tail(resource_changes))

\* C14: for a plan that can be read, the counter of each kind k in {create,
\* update, delete, replace} is the number of occurrences of k in the action
\* lists of all resource changes; other actions touch no counter and stay in
\* the resource's own list; total_resources is the number of resource changes.
C14_ActionCounts ==
    (summary.pc = "done" /\ summary.readable) =>
        LET result == summary.result
            changes == summary.resource_changes
        IN /\ result.actions =
                { << k, Occurrences(k, AllActions(changes)) >> : k \in ActionKinds }
           /\ Len(result.resources) = Len(changes)
           /\ \A i \in 1..Len(changes) : result.resources[i].actions = changes[i].actions
           /\ result.total_resources = Len(changes)

\* a change with an action outside the four kinds next to a counted one
C14_Witness ==
    /\ summary.pc = "done" /\ summary.readable
    /\ Len(summary.resource_changes) = 1
    /\ summary.result.resources[1].actions = << "no-op", "create" >>
    /\ << "create", 1 >> \in summary.result.actions
    /\ summary.result.total_resources = 1

\* what the server can do that makes a lookup fail
FailedOutcomes == { "timeout", "nonzero_exit", "error_response", "unparseable" }

\* main() has extracted the providers
PastInitialize == initialize_result = "full" /\ pc # "extract_providers"

\* C15: send_mcp_request returns {} on a time-out, a non-zero exit, an {error}
\* response and an unparseable response; a lookup that comes back with {}
\* leaves the version undetermined or the modules as none found in that
\* provider's section, never ends the run, and every provider of the list is
\* looked up (two requests each) before the report is written with exit 0.
C15_FailedLookupTolerated ==
    /\ \A outcome \in FailedOutcomes : send_mcp_request(outcome) = "empty"
    /\ (pc = "search_modules" /\ last_result = "empty") => version = "none"
    /\ (PastInitialize /\ pc # "search_modules" /\ report_lines # << >> /\ last_result = "empty")
           => report_lines[Len(report_lines)].modules = "none"
    /\ PastInitialize =>
           /\ pc # "exited" /\ exit_code = 0
           /\ Len(report_lines) <= Len(ret)
           /\ \A i \in 1..Len(report_lines) : report_lines[i].provider = ret[i]
           /\ Len(requests) = 1 + 2 * Len(report_lines) + (IF pc = "search_modules" THEN 1 ELSE 0)
           /\ pc \in { "write_report", "done" } => Len(report_lines) = Len(ret)
           /\ pc = "done" => report_file = "written"

\* the module lookup of the first provider and the version lookup of the
\* second both came back with {}, and the run goes on
C15_Witness ==
    /\ pc = "search_modules"
    /\ Len(ret) = 2
    /\ Len(report_lines) = 1
    /\ report_lines[1].modules = "none"
    /\ last_result = "empty"
    /\ version = "none"

----------------------------------------------------------------------------
(* C16..C20 *)

\* the resource type starts with a token matching ^[a-z][a-z0-9]*_
HasLeadingToken(t) == \E n \in 1..Len(t) : IsTypePrefix(SubSeq(t, 1, n), t)

\* hashicorp/<leading token>, for each type of the list that has one, in order
TypeRefs(types) ==
    LET matching == SelectSeq(types, HasLeadingToken) IN
    [i \in 1..Len(matching) |->
        ProviderRef(hashicorp,
                    SubSeq(matching[i], 1,
                           CHOOSE n \in 1..Len(matching[i]) :
                               IsTypePrefix(SubSeq(matching[i], 1, n), matching[i])))]

\* every ProviderRef the plan gives, in the order of discovery: provider_configs
\* by key order, then resource_changes, then planned_values resources
Discovered ==
    [i \in 1..Len(plan.provider_configs) |-> KeyNameOrFullNameRef(plan.provider_configs[i])]
    \o TypeRefs(plan.resource_changes) \o TypeRefs(plan.planned_resources)

\* the first position of r in Discovered
FirstDiscovered(r) ==
    CHOOSE i \in 1..Len(Discovered) : Discovered[i] = r /\ \A j \in 1..(i - 1) : Discovered[j] # r

\* C16: for a valid plan, the list of plan-based extraction holds every
\* ProviderRef discovered in provider_configs (in key order), resource_changes
\* and planned_values resources (in that order) exactly once, at the place of
\* its first discovery; when it is not empty it is the list returned.
C16_DiscoveryOrder ==
    (calls > 0 /\ PlanValid) =>
        /\ Range(provider_list) = Range(Discovered)
        /\ UniqueKeys(provider_list)
        /\ \A i, j \in 1..Len(provider_list) :
             i < j => FirstDiscovered(provider_list[i]) < FirstDiscovered(provider_list[j])
        /\ provider_list # << >> => ret = provider_list

\* the provider of a resource change ahead of the provider of a planned resource
C16_Witness ==
    /\ calls > 0 /\ PlanValid
    /\ plan.provider_configs = << >>
    /\ plan.resource_changes = << gcp \o << "_", "x" >> >>
    /\ plan.planned_resources = << aws \o << "_", "s", "3" >> >>
    /\ ret = << ProviderRef(hashicorp, gcp), ProviderRef(hashicorp, aws) >>

\* the file the scan has just gone through, once it has gone through i files
ScannedFile(i) == terraform_dir.files[glob_order[i]]

\* C17: in the scanner a recorded block key keeps its ProviderRef: every step
\* of the scan leaves the entries recorded so far as they are, in place, and
\* no block key is ever recorded twice.
C17_FirstDeclarationWins ==
    /\ [](\A i, j \in 1..Len(scan.provider_sources) :
             i # j => scan.provider_sources[i].key # scan.provider_sources[j].key)
    /\ [][\A i \in 1..Len(scan.provider_sources) :
             /\ i <= Len(scan'.provider_sources)
             /\ scan'.provider_sources[i] = scan.provider_sources[i]]_vars

\* two files declare aws with different sources; both have been gone through
\* and the ProviderRef of the first is the only one recorded
C17_Witness ==
    /\ scan.pc = "files" /\ scan.next = 3
    /\ ScannedFile(1).decls = << [key |-> aws, source |-> acme \o << "/" >> \o aws] >>
    /\ ScannedFile(2).decls = << [key |-> aws, source |-> hashicorp \o << "/" >> \o aws] >>
    /\ scan.provider_sources = << [key |-> aws, value |-> ProviderRef(acme, aws)] >>

\* one of the configuration files cannot be read
SomeFileFails == \E f \in Range(terraform_dir.files) : ~f.readable

\* C18: with a configuration file that cannot be read, the scan still ends
\* and returns a ProviderRef for every provider declared in the other files;
\* for a directory that does not exist it returns the empty list.
C18_OtherFilesReturned ==
    scan.pc = "done" =>
        /\ ~terraform_dir.exists => scan.returned = << >>
        /\ (terraform_dir.exists /\ SomeFileFails) =>
               /\ DeclaredKeys \subseteq RecordedKeys
               /\ Len(scan.returned) = Len(scan.provider_sources)

\* the event asks for the release: it has the key 'release' with the value 'Y'
ReleaseAsked == eip.event.has_release /\ eip.event.release = "Y"

\* region r listed an address without AssociationId under this allocation id
WasFree(r, allocation_id) ==
    /\ ~eip.addresses[r].raises
    /\ \E j \in 1..Len(eip.addresses[r].Addresses) :
         /\ eip.addresses[r].Addresses[j].AllocationId = allocation_id
         /\ ~eip.addresses[r].Addresses[j].associated

\* C19: release_address is called only when the event has release = 'Y', and
\* only with the region and allocation id of an address that region listed
\* without AssociationId; for any other event nothing is released, nothing
\* is raised, and the handler returns statusCode 200.
C19_ReleaseOnlyOnRequest ==
    eip.pc # "idle" =>
        /\ eip.released # << >> => ReleaseAsked
        /\ \A k \in 1..Len(eip.released) :
             \E r \in 1..Len(used_regions) :
                /\ eip.released[k].Region = used_regions[r]
                /\ WasFree(r, eip.released[k].AllocationId)
        /\ ~ReleaseAsked => (eip.pc # "raised" /\ (eip.pc = "done" => eip.statusCode = 200))
        /\ eip.statusCode # 0 => (eip.pc = "done" /\ eip.statusCode = 200)

\* with release = 'Y', the one free address was released and the associated
\* address of the same region was not; the handler returned
C19_Witness ==
    /\ eip.pc = "done" /\ eip.statusCode = 200
    /\ ReleaseAsked
    /\ Len(eip.addresses[2].Addresses) = 2
    /\ eip.addresses[2].Addresses[1].associated
    /\ eip.released = << [Region |-> "eu-west-2", AllocationId |-> << 2, 2 >>] >>

\* C20: the n-th request of a run carries the id n, whatever its method and
\* whatever became of it, and the counter stands at the number of requests
\* sent; so the ids are 1, 2, 3, ... and no two requests share one.
C20_RequestIds ==
    /\ request_id_counter = Len(requests)
    /\ \A n \in 1..Len(requests) : requests[n].id = n

\* the initialize request and four lookups were sent, the lookups of the
\* first provider came back without a version and without modules, and the
\* latest request came back with {}
C20_Witness ==
    /\ Len(requests) = 5
    /\ requests[1].method = "initialize" /\ requests[5].method = "tools/call"
    /\ requests[5].id = 5
    /\ report_lines[1].version = "none" /\ report_lines[1].modules = "none"
    /\ last_result = "empty"

----------------------------------------------------------------------------
(* C21 *)

\* the request the n-th call of send_mcp_request is to carry, n > 1: the
\* version lookup and then the module search of each provider in turn
LookupOf(n) ==
    IF n % 2 = 0
    THEN ToolCall("get_latest_provider_version", << ret[n \div 2].namespace, ret[n \div 2].name >>)
    ELSE ToolCall("search_modules", << ret[(n - 1) \div 2].name >>)

\* C21: in main() nothing is requested before the plan file is found to
\* exist; the first request is initialize; providers are extracted only after
\* initialize succeeded; the requests after it are, for each provider of the
\* list in order, one version lookup and then one module search; the report
\* is written only when every provider has had both, and never when main()
\* exits early.
C21_StepOrder ==
    pc # "idle" =>
        /\ pc \in { "check_plan", "initialize_mcp" } => (requests = << >> /\ calls = 0)
        /\ pc = "initialize_mcp" => plan_file # "absent"
        /\ requests # << >> => (plan_file # "absent" /\ requests[1].method = "initialize")
        /\ calls > 0 => (initialize_result = "full" /\ calls = 1)
        /\ Len(requests) <= 1 + 2 * Len(ret)
        /\ \A n \in 2..Len(requests) :
             /\ calls > 0
             /\ requests[n].method = "tools/call"
             /\ requests[n].params = LookupOf(n)
        /\ report_file = "written" =>
             /\ pc = "done"
             /\ Len(requests) = 1 + 2 * Len(ret)
             /\ Len(report_lines) = Len(ret)
        /\ pc = "exited" => (report_file = "absent" /\ exit_code = 1 /\ calls = 0)
        /\ pc = "done" => report_file = "written"

\* two providers were extracted and the run ended with the report written
\* after five requests
C21_Witness ==
    /\ pc = "done" /\ report_file = "written"
    /\ Len(ret) = 2 /\ ret[1] # ret[2]
    /\ Len(requests) = 5
    /\ requests[4].params.arguments = << ret[2].namespace, ret[2].name >>

====
